---------------------------- MODULE Spec2Model ----------------------------
(***************************************************************************)
(* A model of bacpypes3/analysis.py: the frame peeling functions           *)
(* (decode_ethernet, decode_vlan, decode_ip, decode_udp), the layer        *)
(* decoders (decode_lpdu, decode_npdu, decode_apdu), the two pipeline      *)
(* entry points (decode_packet, decode_packet_full), the packet sources    *)
(* (decode_file, decode_file_full) and the tracer framework (Tracer,       *)
(* trace).                                                                 *)
(*                                                                         *)
(* Raw records are sequences of octets and the peeling functions slice     *)
(* them as the Python code does.  The per-type codecs of bacpypes3         *)
(* (LPDU.decode, NPDU.decode, APDU.decode, APCISequence.decode) live in    *)
(* other modules of the package; they are modelled as a capability         *)
(* "decode(bytes) -> record | fault" whose verdict is part of the input    *)
(* (the field codec of a raw record).                                      *)
(*                                                                         *)
(* Python objects are records with a field kind; None is NoneV.  Every     *)
(* function that can raise returns an outcome record: st = "ok" with the   *)
(* value v, or st = "fault" with the exception class err.  calls lists     *)
(* the decoders that were entered, in order.                               *)
(***************************************************************************)
EXTENDS Integers, Sequences, FiniteSets, TLC

VARIABLES
    route_aware,      \* settings.route_aware
    input,            \* the raw record handed to the pipeline entry points
    depth,            \* outcome of decode_packet(input), or Pending
    full,             \* outcome of decode_packet_full(input), or Pending
    capture,          \* the records pylibpcap.pcap.rpcap(fname) produces
    mode,             \* "decode" | "depth" | "full" | "trace": what runs
    i,                \* enumerate(p): records consumed so far
    yielded,          \* what the running generator has yielded so far
    current_tracers,  \* trace: the list of tracer instances, one per slot
    slot,             \* trace: slot being served for the last packet; 0 = none
    invoked           \* trace: handler invocations for the last packet

vars == <<route_aware, input, depth, full, capture, mode, i, yielded,
          current_tracers, slot, invoked>>

-----------------------------------------------------------------------------
(* Bounds of the model *)

\* octets of BACnet payload appended after the network header in the inputs
MaxExtra == 1
\* records in a capture file
MaxRecords == 3
\* tracer factories handed to trace
NumTracers == 2

-----------------------------------------------------------------------------
(* Program constants *)

ETH_HEADER_LEN == 14
ETHERTYPE_VLAN == 33024
ETHERTYPE_IP   == 2048
IPPROTO_TCP    == 6
IPPROTO_UDP    == 17
IPPROTO_ICMP   == 1
BVLL_MARKER    == 129
NPDU_VERSION   == 1

-----------------------------------------------------------------------------
(* Python values *)

NoneV   == [kind |-> "None"]
Unbound == [kind |-> "Unbound"]
Pending == [st |-> "pending"]

Min(a, b) == IF a < b THEN a ELSE b

\* s[lo:hi] of a bytes object, 0 <= lo, 0 <= hi: never raises, clamps to the end
Slice(s, lo, hi) == SubSeq(s, lo + 1, Min(hi, Len(s)))
\* s[lo:]
SliceFrom(s, lo) == SubSeq(s, lo + 1, Len(s))

\* struct.unpack("!H", x)[0] for a two octet x
UnpackH(x) == x[1] * 256 + x[2]

Ok(v, calls)      == [st |-> "ok", v |-> v, calls |-> calls]
Fault(err, calls) == [st |-> "fault", err |-> err, calls |-> calls]

\* Address(...): an address value; addrRoute is its route annotation
Address(form, octets, port) ==
    [kind |-> "Address", form |-> form, octets |-> octets, port |-> port,
     addrRoute |-> NoneV]

\* PDU(data, source=..., destination=...)
PDU(data, source, destination) ==
    [kind |-> "PDU", pduData |-> data, pduSource |-> source,
     pduDestination |-> destination]

\* truth value of a Python object that defines neither __bool__ nor __len__:
\* only None is false
Truthy(x) == x.kind # "None"

-----------------------------------------------------------------------------
(* Frame peeling *)

\* decode_ethernet with the type read without a length check
decode_ethernet_unchecked(s) ==
    [st |-> "ok",
     destination_address |-> Slice(s, 0, 6),
     source_address      |-> Slice(s, 6, 12),
     type                |-> IF Len(Slice(s, 12, 14)) = 2
                             THEN UnpackH(Slice(s, 12, 14)) ELSE 0,
     data                |-> SliceFrom(s, 14)]

decode_ethernet(s) ==
    IF Len(Slice(s, 12, 14)) # 2
    THEN [st |-> "fault", err |-> "struct.error"]
    ELSE [st |-> "ok",
          destination_address |-> Slice(s, 0, 6),
          source_address      |-> Slice(s, 6, 12),
          type                |-> UnpackH(Slice(s, 12, 14)),
          data                |-> SliceFrom(s, 14)]

decode_vlan(s) ==
    IF Len(Slice(s, 0, 2)) # 2 \/ Len(Slice(s, 2, 4)) # 2
    THEN [st |-> "fault", err |-> "struct.error"]
    ELSE LET x == UnpackH(Slice(s, 0, 2))
         IN  [st |-> "ok",
              priority |-> (x \div 8192) % 8,
              cfi      |-> (x \div 4096) % 2,
              vlan     |-> x % 4096,
              type     |-> UnpackH(Slice(s, 2, 4)),
              data     |-> SliceFrom(s, 4)]

\* protocols with the entries for TCP and UDP exchanged
protocols_tcp_as_udp(p) ==
    IF p = IPPROTO_TCP THEN "udp"
    ELSE IF p = IPPROTO_UDP THEN "tcp"
    ELSE IF p = IPPROTO_ICMP THEN "icmp"
    ELSE "other"

\* _protocols.get(s[9], "0x%.2x ?" % s[9])
protocols(p) ==
    IF p = IPPROTO_TCP THEN "tcp"
    ELSE IF p = IPPROTO_UDP THEN "udp"
    ELSE IF p = IPPROTO_ICMP THEN "icmp"
    ELSE "other"

\* the exception decode_ip raises on a buffer of n < 20 octets: s[k] raises
\* IndexError, struct.unpack struct.error, socket.inet_ntoa OSError, in the
\* order the fields are read
decode_ip_fault(n) ==
    IF n < 2 THEN "IndexError"
    ELSE IF n < 6 THEN "struct.error"
    ELSE IF n = 6 THEN "IndexError"
    ELSE IF n = 7 THEN "struct.error"
    ELSE IF n < 10 THEN "IndexError"
    ELSE IF n < 12 THEN "struct.error"
    ELSE "OSError"

decode_ip(s) ==
    IF Len(s) < 20
    THEN [st |-> "fault", err |-> decode_ip_fault(Len(s))]
    ELSE LET header_len == s[1] % 16
         IN  [st |-> "ok",
              version    |-> s[1] \div 16,
              header_len |-> header_len,
              total_len  |-> UnpackH(Slice(s, 2, 4)),
              protocol   |-> protocols(s[10]),
              source_address      |-> Slice(s, 12, 16),
              destination_address |-> Slice(s, 16, 20),
              options |-> IF header_len > 5
                          THEN Slice(s, 20, 4 * (header_len - 5))
                          ELSE <<>>,
              data    |-> SliceFrom(s, 4 * header_len)]

\* decode_udp with the payload not trimmed to the declared length
decode_udp_untrimmed(s) ==
    IF Len(s) < 8
    THEN [st |-> "fault", err |-> "struct.error"]
    ELSE [st |-> "ok",
          source_port      |-> UnpackH(Slice(s, 0, 2)),
          destination_port |-> UnpackH(Slice(s, 2, 4)),
          length           |-> UnpackH(Slice(s, 4, 6)),
          checksum         |-> UnpackH(Slice(s, 6, 8)),
          data             |-> SliceFrom(s, 8)]

decode_udp(s) ==
    IF Len(s) < 8
    THEN [st |-> "fault", err |-> "struct.error"]
    ELSE LET length == UnpackH(Slice(s, 4, 6))
         IN  [st |-> "ok",
              source_port      |-> UnpackH(Slice(s, 0, 2)),
              destination_port |-> UnpackH(Slice(s, 2, 4)),
              length           |-> length,
              checksum         |-> UnpackH(Slice(s, 6, 8)),
              data             |-> Slice(s, 8, (8 + length) - 8)]

-----------------------------------------------------------------------------
(* The per-type codecs of the package (bacpypes3.ipv4.bvll, bacpypes3.npdu, *)
(* bacpypes3.apdu).  codec is the verdict of each codec on the record:      *)
(*   lpdu, btype, npdu, ntype : "ok" | "fault"                              *)
(*   net  : "none" | "known" | "unknown"   the control-message type found   *)
(*   sadr, dadr : BOOLEAN                  routed address fields present    *)
(*   apdu : "fault" | the header kind the generic decode finds              *)
(*   seq  : "ok" | "AttributeError" | "fault"   APCISequence.decode         *)
(* A decode returns a new record and leaves its argument as it was.         *)

FN_RESULT        == 0
FN_FORWARDED     == 4
FN_DISTRIBUTE    == 9
FN_ORIG_UNICAST  == 10
FN_ORIG_BCAST    == 11
FN_LAST_KNOWN    == 11
BVLCI_LEN        == 4
BVLC_ADDR_LEN    == 6
NPCI_LEN         == 2
NET_MSG_KNOWN    == 1
NET_MSG_UNKNOWN  == 128
NET_MSG_LAST     == 19

\* LPDU.decode(pdu): type, function, length, then the body
LPDU_decode(pdu, codec) ==
    IF codec.lpdu = "fault" \/ Len(pdu.pduData) < BVLCI_LEN
    THEN [st |-> "fault", err |-> "DecodingError"]
    ELSE [st |-> "ok",
          v |-> [kind |-> "LPDU",
                 bvlciFunction |-> pdu.pduData[2],
                 pduData |-> SliceFrom(pdu.pduData, BVLCI_LEN),
                 pduSource |-> pdu.pduSource,
                 pduDestination |-> pdu.pduDestination]]

\* bvll_pdu_types.get(function): the class registered for a function code
bvll_pdu_types(fn) ==
    IF fn = FN_RESULT THEN "Result"
    ELSE IF fn = FN_FORWARDED THEN "ForwardedNPDU"
    ELSE IF fn = FN_DISTRIBUTE THEN "DistributeBroadcastToNetwork"
    ELSE IF fn = FN_ORIG_UNICAST THEN "OriginalUnicastNPDU"
    ELSE IF fn = FN_ORIG_BCAST THEN "OriginalBroadcastNPDU"
    ELSE IF fn <= FN_LAST_KNOWN THEN "OtherBVLL"
    ELSE "None"

\* atype(): an instance built with no arguments; it holds nothing of the frame
atype_new(atype) ==
    [kind |-> atype, bvlciAddress |-> NoneV, pduData |-> <<>>,
     pduSource |-> NoneV, pduDestination |-> NoneV]

\* atype.decode(lpdu): the function-specific decode of the structural record
atype_decode(atype, lpdu, codec) ==
    LET body == lpdu.pduData
        typed(addr, rest) ==
            [st |-> "ok",
             v |-> [kind |-> atype,
                    bvlciFunction |-> lpdu.bvlciFunction,
                    bvlciAddress |-> addr,
                    pduData |-> rest,
                    pduSource |-> lpdu.pduSource,
                    pduDestination |-> lpdu.pduDestination]]
        fault == [st |-> "fault", err |-> "DecodingError"]
    IN  IF codec.btype = "fault" THEN fault
        ELSE IF atype = "ForwardedNPDU"
        THEN IF Len(body) < BVLC_ADDR_LEN THEN fault
             ELSE typed(Address("ipport", Slice(body, 0, 4),
                                UnpackH(Slice(body, 4, 6))),
                        SliceFrom(body, BVLC_ADDR_LEN))
        ELSE IF atype = "Result"
        THEN IF Len(body) < 2 THEN fault
             ELSE typed(NoneV, SliceFrom(body, 2))
        ELSE IF atype = "OtherBVLL" THEN typed(NoneV, <<>>)
        ELSE typed(NoneV, body)

\* the routed addresses a network header carries
SADR == Address("remote", <<7>>, 0)
DADR == Address("remote", <<9>>, 0)

IntV(n) == [kind |-> "int", val |-> n]

\* NPDU.decode(pdu): version, control, routed addresses, message type
NPDU_decode(pdu, codec) ==
    IF codec.npdu = "fault" \/ Len(pdu.pduData) < NPCI_LEN
    THEN [st |-> "fault", err |-> "DecodingError"]
    ELSE [st |-> "ok",
          v |-> [kind |-> "NPDU",
                 npduVersion |-> pdu.pduData[1],
                 npduNetMessage |->
                     IF codec.net = "none" THEN NoneV
                     ELSE IF codec.net = "known" THEN IntV(NET_MSG_KNOWN)
                     ELSE IntV(NET_MSG_UNKNOWN),
                 npduSADR |-> IF codec.sadr THEN SADR ELSE NoneV,
                 npduDADR |-> IF codec.dadr THEN DADR ELSE NoneV,
                 pduData |-> SliceFrom(pdu.pduData, NPCI_LEN),
                 pduSource |-> pdu.pduSource,
                 pduDestination |-> pdu.pduDestination]]

\* npdu_types.get(message type)
npdu_types(m) == IF m.val <= NET_MSG_LAST THEN "NetworkMessage" ELSE "None"

\* ntype.decode(npdu): the specialised network message
ntype_decode(ntype, npdu, codec) ==
    IF codec.ntype = "fault"
    THEN [st |-> "fault", err |-> "DecodingError"]
    ELSE [st |-> "ok", v |-> [npdu EXCEPT !.kind = ntype]]

\* APDU.decode(npdu): the generic application header
APDU_decode(npdu, codec) ==
    IF codec.apdu = "fault" \/ npdu.pduData = <<>>
    THEN [st |-> "fault", err |-> "DecodingError"]
    ELSE [st |-> "ok",
          v |-> [kind |-> codec.apdu,
                 sequence |-> FALSE,
                 pduData |-> SliceFrom(npdu.pduData, 1),
                 pduSource |-> NoneV,
                 pduDestination |-> NoneV]]

\* APCISequence.decode(apdu): the service-parameter sequence
APCISequence_decode(apdu, codec) ==
    IF codec.seq = "ok"
    THEN [st |-> "ok", v |-> [apdu EXCEPT !.sequence = TRUE]]
    ELSE [st |-> "fault",
          err |-> IF codec.seq = "AttributeError" THEN "AttributeError"
                  ELSE "DecodingError"]

-----------------------------------------------------------------------------
(* The layer decoders *)

WrappingKinds ==
    {"DistributeBroadcastToNetwork", "OriginalUnicastNPDU",
     "OriginalBroadcastNPDU"}

\* decode_lpdu, lines 162-196: the focused interpretation of the structural
\* record lpdu0 that LPDU.decode returned
decode_lpdu_typed(lpdu0, codec, ra) ==
    LET atype == bvll_pdu_types(lpdu0.bvlciFunction)
    IN  IF atype = "None"
        THEN [st |-> "ok", lpdu |-> lpdu0, bpdu |-> NoneV,
              calls |-> <<"LPDU.decode">>]
        ELSE
        LET xpdu == lpdu0
            bpdu == atype_new(atype)
            t    == atype_decode(atype, lpdu0, codec)
            calls == <<"LPDU.decode", "atype.decode">>
        IN  IF t.st = "fault"
            THEN [st |-> "ok", lpdu |-> xpdu, bpdu |-> NoneV, calls |-> calls]
            ELSE IF atype = "ForwardedNPDU"
            THEN LET old_pdu_source == t.v.pduSource
                     lifted ==
                         IF ra /\ Truthy(bpdu.bvlciAddress)
                         THEN [t.v EXCEPT !.pduSource =
                                 [bpdu.bvlciAddress EXCEPT
                                    !.addrRoute = old_pdu_source]]
                         ELSE t.v
                 IN  [st |-> "ok", lpdu |-> lifted, bpdu |-> bpdu,
                      calls |-> calls]
            ELSE IF atype \notin WrappingKinds
            THEN [st |-> "ok", lpdu |-> t.v, bpdu |-> bpdu, calls |-> calls]
            ELSE [st |-> "ok", lpdu |-> t.v, bpdu |-> bpdu, calls |-> calls]

\* decode_lpdu with the fault of LPDU.decode left to propagate
decode_lpdu_uncaught(pdu, codec, ra) ==
    IF pdu.pduData = <<>>
    THEN [st |-> "fault", err |-> "IndexError", calls |-> <<>>]
    ELSE IF pdu.pduData[1] # BVLL_MARKER
    THEN [st |-> "ok", lpdu |-> pdu, bpdu |-> NoneV, calls |-> <<>>]
    ELSE LET r == LPDU_decode(pdu, codec)
         IN  IF r.st = "fault"
             THEN [st |-> "fault", err |-> r.err, calls |-> <<"LPDU.decode">>]
             ELSE decode_lpdu_typed(r.v, codec, ra)

\* decode_lpdu(pdu) -> (lpdu, bpdu)
decode_lpdu(pdu, codec, ra) ==
    IF pdu.pduData = <<>>
    THEN [st |-> "fault", err |-> "IndexError", calls |-> <<>>]
    ELSE IF pdu.pduData[1] # BVLL_MARKER
    THEN [st |-> "ok", lpdu |-> pdu, bpdu |-> NoneV, calls |-> <<>>]
    ELSE LET r == LPDU_decode(pdu, codec)
         IN  IF r.st = "fault"
             THEN [st |-> "ok", lpdu |-> pdu, bpdu |-> NoneV,
                   calls |-> <<"LPDU.decode">>]
             ELSE decode_lpdu_typed(r.v, codec, ra)

\* decode_npdu without the check of the version octet
decode_npdu_any_version(pdu, codec) ==
    LET r == NPDU_decode(pdu, codec)
    IN  IF r.st = "fault"
        THEN Ok(NoneV, <<"NPDU.decode">>)
        ELSE Ok(r.v, <<"NPDU.decode">>)

\* decode_npdu with the fault of NPDU.decode left to propagate
decode_npdu_uncaught(pdu, codec) ==
    IF pdu.pduData = <<>>
    THEN Fault("IndexError", <<>>)
    ELSE IF pdu.pduData[1] # NPDU_VERSION
    THEN Ok(NoneV, <<>>)
    ELSE LET r == NPDU_decode(pdu, codec)
         IN  IF r.st = "fault"
             THEN Fault(r.err, <<"NPDU.decode">>)
             ELSE decode_npdu_any_version(pdu, codec)

\* decode_npdu(pdu) -> Optional[NPDU]
decode_npdu(pdu, codec) ==
    IF pdu.pduData = <<>>
    THEN Fault("IndexError", <<>>)
    ELSE IF pdu.pduData[1] # NPDU_VERSION
    THEN Ok(NoneV, <<>>)
    ELSE
    LET r == NPDU_decode(pdu, codec)
    IN  IF r.st = "fault"
        THEN Ok(NoneV, <<"NPDU.decode">>)
        ELSE IF r.v.npduNetMessage.kind # "None"
        THEN LET ntype == npdu_types(r.v.npduNetMessage)
             IN  IF ntype = "None"
                 THEN Ok(r.v, <<"NPDU.decode">>)
                 ELSE LET t == ntype_decode(ntype, r.v, codec)
                      IN  Ok(IF t.st = "fault" THEN r.v ELSE t.v,
                             <<"NPDU.decode", "ntype.decode">>)
        ELSE Ok(r.v, <<"NPDU.decode">>)

RefinedKinds ==
    {"ConfirmedRequestPDU", "ComplexAckPDU", "UnconfirmedRequestPDU"}

\* decode_apdu, lines 271-274: the npdu object as decode_apdu leaves it.  The
\* lifted source is the npdu's own npduSADR object, so the route annotation
\* written through apdu.pduSource is written to it
decode_apdu_npdu(npdu, codec, ra) ==
    IF /\ npdu.npduNetMessage.kind = "None"
       /\ APDU_decode(npdu, codec).st = "ok"
       /\ Truthy(npdu.npduSADR)
       /\ ra
    THEN [npdu EXCEPT !.npduSADR.addrRoute = npdu.pduSource]
    ELSE npdu

\* decode_apdu, lines 270-280: the addresses of the network record are
\* lifted into the generic header
decode_apdu_lift(npdu, apdu, ra) ==
    LET source ==
            IF Truthy(npdu.npduSADR)
            THEN IF ra
                 THEN [npdu.npduSADR EXCEPT !.addrRoute = npdu.pduSource]
                 ELSE npdu.npduSADR
            ELSE npdu.pduSource
        destination ==
            IF Truthy(npdu.npduDADR)
            THEN npdu.npduDADR
            ELSE npdu.pduDestination
    IN  [apdu EXCEPT !.pduSource = source, !.pduDestination = destination]

\* decode_apdu_refine with every exception of APCISequence.decode swallowed
decode_apdu_refine_catch_all(apdu, codec) ==
    IF apdu.kind \in RefinedKinds
    THEN LET q == APCISequence_decode(apdu, codec)
             calls == <<"APDU.decode", "APCISequence.decode">>
         IN  IF q.st = "ok" THEN Ok(q.v, calls) ELSE Ok(apdu, calls)
    ELSE Ok(apdu, <<"APDU.decode">>)

\* decode_apdu, lines 282-293: the service sequence of the three header kinds
\* that carry one; only AttributeError is caught
decode_apdu_refine(apdu, codec) ==
    IF apdu.kind \in RefinedKinds
    THEN LET q == APCISequence_decode(apdu, codec)
             calls == <<"APDU.decode", "APCISequence.decode">>
         IN  IF q.st = "ok" THEN Ok(q.v, calls)
             ELSE IF q.err = "AttributeError" THEN Ok(apdu, calls)
             ELSE Fault(q.err, calls)
    ELSE Ok(apdu, <<"APDU.decode">>)

\* decode_apdu_generic with the fault of APDU.decode left to propagate
decode_apdu_generic_uncaught(npdu, codec, ra) ==
    LET r == APDU_decode(npdu, codec)
    IN  IF r.st = "fault"
        THEN Fault(r.err, <<"APDU.decode">>)
        ELSE decode_apdu_refine(decode_apdu_lift(npdu, r.v, ra), codec)

\* decode_apdu, lines 262-293: the generic header, the lifted addresses and
\* the service sequence
decode_apdu_generic(npdu, codec, ra) ==
    LET r == APDU_decode(npdu, codec)
    IN  IF r.st = "fault"
        THEN Ok(NoneV, <<"APDU.decode">>)
        ELSE decode_apdu_refine(decode_apdu_lift(npdu, r.v, ra), codec)

\* decode_apdu without the check for a network layer message
decode_apdu_unguarded(npdu, codec, ra) ==
    decode_apdu_generic(npdu, codec, ra)

\* decode_apdu(npdu) -> Optional[APDU]
decode_apdu(npdu, codec, ra) ==
    IF npdu.npduNetMessage.kind # "None"
    THEN Ok(NoneV, <<>>)
    ELSE decode_apdu_generic(npdu, codec, ra)

-----------------------------------------------------------------------------
(* The pipeline entry points.  An outcome is st = "ok" with the value v,    *)
(* st = "none" (the function returned None) or st = "fault" with err.       *)

Result(st, v, err, calls) == [st |-> st, v |-> v, err |-> err, calls |-> calls]

\* socket.inet_ntoa(...): a dotted string, an address without a port
IPString(octets) == [kind |-> "str", octets |-> octets]

\* DecodedPacket(pdu=pdu)
DecodedPacket(pdu) ==
    [kind |-> "DecodedPacket", pdu |-> pdu, lpdu |-> NoneV, npdu |-> NoneV,
     apdu |-> NoneV, number |-> NoneV, timestamp |-> NoneV]

\* lines 357-372: the layers of decode_packet on the transport pdu
decode_packet_layers(pdu, codec, ra, peeled) ==
    LET l == decode_lpdu(pdu, codec, ra)
        c1 == peeled \o <<"decode_lpdu">> \o l.calls
    IN  IF l.st = "fault" THEN Result("fault", NoneV, l.err, c1)
        ELSE
        LET n == decode_npdu(l.lpdu, codec)
            c2 == c1 \o <<"decode_npdu">> \o n.calls
        IN  IF n.st = "fault" THEN Result("fault", NoneV, n.err, c2)
            ELSE IF ~Truthy(n.v) THEN Result("ok", l.lpdu, "", c2)
            ELSE
            LET a == decode_apdu(n.v, codec, ra)
                c3 == c2 \o <<"decode_apdu">> \o a.calls
            IN  IF a.st = "fault" THEN Result("fault", NoneV, a.err, c3)
                ELSE IF Truthy(a.v) THEN Result("ok", a.v, "", c3)
                ELSE Result("ok", n.v, "", c3)

\* decode_packet_build without the check for an empty payload
decode_packet_build_unchecked(data, pduSource, pduDestination, codec, ra, peeled) ==
    IF pduSource = Unbound \/ pduDestination = Unbound
    THEN Result("fault", NoneV, "UnboundLocalError", peeled)
    ELSE decode_packet_layers(PDU(data, pduSource, pduDestination),
                              codec, ra, peeled)

\* lines 348-355: the check for an empty payload, then the transport pdu;
\* reading a local that no branch has bound raises UnboundLocalError
decode_packet_build(data, pduSource, pduDestination, codec, ra, peeled) ==
    IF data = <<>> THEN Result("none", NoneV, "", peeled)
    ELSE IF pduSource = Unbound \/ pduDestination = Unbound
    THEN Result("fault", NoneV, "UnboundLocalError", peeled)
    ELSE decode_packet_layers(PDU(data, pduSource, pduDestination),
                              codec, ra, peeled)

\* decode_packet(data)
decode_packet(data, codec, ra) ==
    IF data = <<>> THEN Result("none", NoneV, "", <<>>)
    ELSE
    LET d1 == decode_ethernet(data)
        k1 == <<"decode_ethernet">>
    IN  IF d1.st = "fault" THEN Result("fault", NoneV, d1.err, k1)
        ELSE
        LET pdu_source == Address("mac", d1.source_address, 0)
            pdu_destination == Address("mac", d1.destination_address, 0)
            vlan == d1.type = ETHERTYPE_VLAN
            d2 == IF vlan THEN decode_vlan(d1.data) ELSE d1
            k2 == IF vlan THEN k1 \o <<"decode_vlan">> ELSE k1
        IN  IF d2.st = "fault" THEN Result("fault", NoneV, d2.err, k2)
            ELSE
            LET ip == d2.type = ETHERTYPE_IP
                d3 == IF ip THEN decode_ip(d2.data) ELSE d2
                k3 == IF ip THEN k2 \o <<"decode_ip">> ELSE k2
            IN  IF d3.st = "fault" THEN Result("fault", NoneV, d3.err, k3)
                ELSE
                LET udp == ip /\ d3.protocol = "udp"
                    d4 == IF udp THEN decode_udp(d3.data) ELSE d3
                    k4 == IF udp THEN k3 \o <<"decode_udp">> ELSE k3
                IN  IF d4.st = "fault" THEN Result("fault", NoneV, d4.err, k4)
                    ELSE
                    LET pduSource ==
                            IF udp THEN Address("ipport", d3.source_address,
                                                d4.source_port)
                            ELSE IF ip THEN IPString(d3.source_address)
                            ELSE Unbound
                        pduDestination ==
                            IF udp THEN Address("ipport", d3.destination_address,
                                                d4.destination_port)
                            ELSE IF ip THEN IPString(d3.destination_address)
                            ELSE Unbound
                    IN  decode_packet_build(d4.data, pduSource, pduDestination,
                                            codec, ra, k4)

\* lines 438-455: the layers of decode_packet_full on the transport pdu
decode_packet_full_layers(pdu, codec, ra, peeled) ==
    LET result == DecodedPacket(pdu)
        l == decode_lpdu(pdu, codec, ra)
        c1 == peeled \o <<"decode_lpdu">> \o l.calls
    IN  IF l.st = "fault" THEN Result("fault", NoneV, l.err, c1)
        ELSE
        LET result1 == IF Truthy(l.lpdu) /\ l.lpdu # pdu
                       THEN [result EXCEPT !.lpdu = l.lpdu]
                       ELSE result
            n == decode_npdu(l.lpdu, codec)
            c2 == c1 \o <<"decode_npdu">> \o n.calls
        IN  IF n.st = "fault" THEN Result("fault", NoneV, n.err, c2)
            ELSE IF ~Truthy(n.v) THEN Result("ok", result1, "", c2)
            ELSE
            LET result2 == [result1 EXCEPT !.npdu = n.v]
                a == decode_apdu(n.v, codec, ra)
                c3 == c2 \o <<"decode_apdu">> \o a.calls
            IN  IF a.st = "fault" THEN Result("fault", NoneV, a.err, c3)
                ELSE IF Truthy(a.v)
                THEN Result("ok",
                            [result2 EXCEPT
                                !.npdu = decode_apdu_npdu(n.v, codec, ra),
                                !.apdu = a.v], "", c3)
                ELSE Result("ok", result2, "", c3)

\* lines 429-436: the check for an empty payload, then the transport pdu
decode_packet_full_build(data, pduSource, pduDestination, codec, ra, peeled) ==
    IF data = <<>> THEN Result("none", NoneV, "", peeled)
    ELSE decode_packet_full_layers(PDU(data, pduSource, pduDestination),
                                   codec, ra, peeled)

\* decode_packet_full(data)
decode_packet_full(data, codec, ra) ==
    IF data = <<>> THEN Result("none", NoneV, "", <<>>)
    ELSE
    LET d1 == decode_ethernet(data)
        k1 == <<"decode_ethernet">>
    IN  IF d1.st = "fault" THEN Result("fault", NoneV, d1.err, k1)
        ELSE
        LET vlan == d1.type = ETHERTYPE_VLAN
            d2 == IF vlan THEN decode_vlan(d1.data) ELSE d1
            k2 == IF vlan THEN k1 \o <<"decode_vlan">> ELSE k1
        IN  IF d2.st = "fault" THEN Result("fault", NoneV, d2.err, k2)
            ELSE
            LET ip == d2.type = ETHERTYPE_IP
                d3 == IF ip THEN decode_ip(d2.data) ELSE d2
                k3 == IF ip THEN k2 \o <<"decode_ip">> ELSE k2
            IN  IF d3.st = "fault" THEN Result("fault", NoneV, d3.err, k3)
                ELSE
                LET udp == ip /\ d3.protocol = "udp"
                    d4 == IF udp THEN decode_udp(d3.data) ELSE d3
                    k4 == IF udp THEN k3 \o <<"decode_udp">> ELSE k3
                IN  IF d4.st = "fault" THEN Result("fault", NoneV, d4.err, k4)
                    ELSE
                    LET pduSource ==
                            IF udp THEN Address("ipport", d3.source_address,
                                                d4.source_port)
                            ELSE IF ip THEN IPString(d3.source_address)
                            ELSE Address("mac", d1.source_address, 0)
                        pduDestination ==
                            IF udp THEN Address("ipport", d3.destination_address,
                                                d4.destination_port)
                            ELSE IF ip THEN IPString(d3.destination_address)
                            ELSE Address("mac", d1.destination_address, 0)
                    IN  decode_packet_full_build(d4.data, pduSource,
                                                 pduDestination, codec, ra, k4)

-----------------------------------------------------------------------------
(* The raw records the capture reader can hand over: frames built octet by  *)
(* octet, every truncation of them, and every verdict of the codecs on them *)

U16(n) == <<n \div 256, n % 256>>

UDP_HEADER_LEN == 8

\* an ethertype that is neither VLAN nor IPv4 (ARP), and the BACnet/IP port
ETHERTYPE_ARP == ETHERTYPE_IP + 6
BACNET_PORT   == 186 * 256 + 192

MacDst == <<2, 0, 0, 0, 0, 1>>
MacSrc == <<2, 0, 0, 0, 0, 2>>
IpSrc  == <<10, 0, 0, 2>>
IpDst  == <<10, 0, 0, 1>>

Eth(type, payload)  == MacDst \o MacSrc \o U16(type) \o payload
Vlan(type, payload) == U16(8192 + 5) \o U16(type) \o payload
IPv4(ihl, proto, payload) ==
    <<64 + ihl, 0>> \o U16(4 * ihl + Len(payload)) \o U16(7) \o <<0, 0>>
    \o <<64, proto>> \o U16(0) \o IpSrc \o IpDst
    \o [k \in 1..(IF ihl > 5 THEN 4 * (ihl - 5) ELSE 0) |-> 0]
    \o payload
Udp(length, payload) ==
    U16(BACNET_PORT + 1) \o U16(BACNET_PORT) \o U16(length) \o U16(0)
    \o payload

\* a network header (version, control) followed by k octets
Npdu(version, k) == <<version, 0>> \o [j \in 1..k |-> 16 * j]
Bvll(fn, body)   == <<BVLL_MARKER, fn>> \o U16(BVLCI_LEN + Len(body)) \o body
FwdAddr          == <<10, 0, 0, 9>> \o U16(BACNET_PORT)

\* a function code outside the registry, and a registered one that wraps no
\* network message (Register-Foreign-Device)
FN_UNKNOWN  == FN_LAST_KNOWN + 88
FN_REGISTER == FN_FORWARDED + 1

NetBodies == {Npdu(NPDU_VERSION, k) : k \in 0..MaxExtra} \cup {Npdu(2, 0), <<>>}

Payloads ==
    NetBodies
    \cup {Bvll(fn, b) : fn \in {FN_ORIG_UNICAST, FN_ORIG_BCAST, FN_DISTRIBUTE,
                                 FN_UNKNOWN, FN_REGISTER},
                        b \in NetBodies}
    \cup {Bvll(FN_FORWARDED, FwdAddr \o b) : b \in NetBodies}
    \cup {Bvll(FN_FORWARDED, <<10, 0>>)}
    \cup {Bvll(FN_RESULT, <<0, 0>> \o b) : b \in NetBodies}

Prefixes(s) == {SubSeq(s, 1, n) : n \in 0..Len(s)}

SamplePayload == Bvll(FN_ORIG_UNICAST, Npdu(NPDU_VERSION, 1))

RawData ==
    {Eth(ETHERTYPE_IP, IPv4(5, IPPROTO_UDP, Udp(UDP_HEADER_LEN + Len(p), p)))
        : p \in Payloads}
    \cup {Eth(ETHERTYPE_ARP, p) : p \in Payloads}
    \cup {Eth(ETHERTYPE_VLAN, Vlan(ETHERTYPE_ARP, p)) : p \in NetBodies}
    \cup {Eth(ETHERTYPE_IP, IPv4(5, proto, p))
            : proto \in {IPPROTO_TCP, IPPROTO_ICMP, 47}, p \in NetBodies}
    \cup {Eth(ETHERTYPE_VLAN, Vlan(ETHERTYPE_IP, IPv4(6, IPPROTO_TCP, p)))
            : p \in NetBodies}
    \cup {Eth(ETHERTYPE_IP, IPv4(ihl, IPPROTO_UDP,
                                 Udp(UDP_HEADER_LEN + Len(SamplePayload),
                                     SamplePayload)))
            : ihl \in {0, 6, 15}}
    \cup {Eth(ETHERTYPE_IP, IPv4(5, IPPROTO_UDP, Udp(n, SamplePayload)))
            : n \in {0, 3, UDP_HEADER_LEN, UDP_HEADER_LEN + 1,
                     UDP_HEADER_LEN + Len(SamplePayload) - 1,
                     UDP_HEADER_LEN + Len(SamplePayload) + 5}}
    \cup Prefixes(Eth(ETHERTYPE_VLAN, Vlan(ETHERTYPE_IP,
              IPv4(5, IPPROTO_UDP,
                   Udp(UDP_HEADER_LEN + Len(SamplePayload), SamplePayload)))))
    \cup Prefixes(Eth(ETHERTYPE_IP, IPv4(6, IPPROTO_UDP,
              Udp(UDP_HEADER_LEN + 2, Npdu(NPDU_VERSION, 0)))))
    \cup Prefixes(Eth(ETHERTYPE_IP, IPv4(5, IPPROTO_TCP, Npdu(NPDU_VERSION, 0))))
    \cup Prefixes(Eth(ETHERTYPE_VLAN, Vlan(ETHERTYPE_ARP, Npdu(NPDU_VERSION, 0))))

DefaultCodec ==
    [lpdu |-> "ok", btype |-> "ok", npdu |-> "ok", net |-> "none",
     ntype |-> "ok", sadr |-> FALSE, dadr |-> FALSE,
     apdu |-> "SimpleAckPDU", seq |-> "ok"]

Codecs ==
    {c \in [lpdu : {"ok", "fault"}, btype : {"ok", "fault"},
            npdu : {"ok", "fault"}, net : {"none", "known", "unknown"},
            ntype : {"ok", "fault"}, sadr : BOOLEAN, dadr : BOOLEAN,
            apdu : RefinedKinds \cup {"SimpleAckPDU", "fault"},
            seq : {"ok", "AttributeError", "fault"}] :
        /\ c.lpdu = "fault" => c.btype = "ok"
        /\ c.npdu = "fault" => c.net = "none"
        /\ c.net # "none" => ~c.sadr /\ ~c.dadr /\ c.apdu = "SimpleAckPDU"
        /\ c.net = "none" => c.ntype = "ok"
        /\ c.npdu = "fault" => ~c.sadr /\ ~c.dadr /\ c.apdu = "SimpleAckPDU"
        /\ c.apdu \notin RefinedKinds => c.seq = "ok"}

InSeq(x, s) == \E k \in 1..Len(s) : s[k] = x

\* a verdict no decoder asks for is left at its default
Canonical(data, c) ==
    LET calls == decode_packet_full(data, c, TRUE).calls
    IN  /\ ~InSeq("LPDU.decode", calls) => c.lpdu = "ok"
        /\ ~InSeq("atype.decode", calls) => c.btype = "ok"
        /\ ~InSeq("NPDU.decode", calls) => c.npdu = "ok" /\ c.net = "none"
        /\ ~InSeq("ntype.decode", calls) => c.ntype = "ok"
        /\ ~InSeq("decode_apdu", calls) => ~c.sadr /\ ~c.dadr
        /\ ~InSeq("APDU.decode", calls) => c.apdu = "SimpleAckPDU"
        /\ ~InSeq("APCISequence.decode", calls) => c.seq = "ok"

Inputs ==
    {[data |-> d, codec |-> c] : d \in RawData, c \in {DefaultCodec}}
    \cup {x \in [data : RawData, codec : Codecs] : Canonical(x.data, x.codec)}

-----------------------------------------------------------------------------
(* The entry points applied to one raw record *)

InitDecode ==
    /\ route_aware \in BOOLEAN
    /\ input \in Inputs
    /\ depth = Pending
    /\ full = Pending
    /\ mode = "decode"
    /\ capture = <<>>
    /\ i = 0
    /\ yielded = <<>>
    /\ current_tracers = <<>>
    /\ slot = 0
    /\ invoked = <<>>

CallDecodePacket ==
    /\ mode = "decode"
    /\ depth = Pending
    /\ depth' = decode_packet(input.data, input.codec, route_aware)
    /\ UNCHANGED <<route_aware, input, full, capture, mode, i, yielded,
                   current_tracers, slot, invoked>>

CallDecodePacketFull ==
    /\ mode = "decode"
    /\ full = Pending
    /\ full' = decode_packet_full(input.data, input.codec, route_aware)
    /\ UNCHANGED <<route_aware, input, depth, capture, mode, i, yielded,
                   current_tracers, slot, invoked>>

NextDecode == CallDecodePacket \/ CallDecodePacketFull

SpecDecode == InitDecode /\ [][NextDecode]_vars

-----------------------------------------------------------------------------
(* The packet sources decode_file and decode_file_full.  The reader p hands *)
(* over one record (len, timestamp, data) per iteration; capture is what it *)
(* has handed over so far.                                                  *)

GoodFrame ==
    Eth(ETHERTYPE_IP, IPv4(5, IPPROTO_UDP,
        Udp(UDP_HEADER_LEN + Len(SamplePayload), SamplePayload)))
GoodCodec == [DefaultCodec EXCEPT !.apdu = "ConfirmedRequestPDU"]

\* a well-formed unicast application packet; the same frame with a virtual
\* link header the codec rejects; an empty record; a truncated frame; a frame
\* that is not IPv4; a frame whose service sequence faults; one whose network
\* header the codec rejects; one whose application header the codec rejects;
\* one whose service sequence raises AttributeError; an application packet of
\* a kind that carries no service sequence
CaptureData ==
    {[data |-> GoodFrame, codec |-> GoodCodec],
     [data |-> GoodFrame, codec |-> [DefaultCodec EXCEPT !.lpdu = "fault"]],
     [data |-> <<>>, codec |-> DefaultCodec],
     [data |-> SubSeq(GoodFrame, 1, 10), codec |-> DefaultCodec],
     [data |-> Eth(ETHERTYPE_ARP, Npdu(NPDU_VERSION, 1)), codec |-> DefaultCodec],
     [data |-> GoodFrame, codec |-> [GoodCodec EXCEPT !.seq = "fault"]],
     [data |-> GoodFrame, codec |-> [DefaultCodec EXCEPT !.npdu = "fault"]],
     [data |-> GoodFrame, codec |-> [DefaultCodec EXCEPT !.apdu = "fault"]],
     [data |-> GoodFrame,
      codec |-> [GoodCodec EXCEPT !.seq = "AttributeError"]],
     [data |-> GoodFrame, codec |-> DefaultCodec]}

Timestamps == {100, 200}

\* the records the reader hands over: every record at the earliest timestamp,
\* and the well-formed packet at every timestamp
CaptureRecords ==
    {[data |-> x.data, codec |-> x.codec,
      timestamp |-> CHOOSE t \in Timestamps : \A u \in Timestamps : t <= u]
        : x \in CaptureData}
    \cup {[data |-> GoodFrame, codec |-> GoodCodec, timestamp |-> t]
            : t \in Timestamps}

NoInput == [data |-> <<>>, codec |-> DefaultCodec]

\* decode_file_body with an exception of decode_packet left to propagate
decode_file_body_uncaught(r, timestamp, k, out) ==
    IF r.st = "ok"
    THEN [i |-> k + 1, running |-> TRUE,
          yielded |-> Append(out, r.v @@ [_number |-> k + 1,
                                          _timestamp |-> timestamp])]
    ELSE [i |-> k + 1, running |-> r.st # "fault", yielded |-> out]

\* decode_file_body with the position of enumerate as the packet number
decode_file_body_zero_based(r, timestamp, k, out) ==
    IF r.st = "ok"
    THEN [i |-> k + 1, running |-> TRUE,
          yielded |-> Append(out, r.v @@ [_number |-> k,
                                          _timestamp |-> timestamp])]
    ELSE [i |-> k + 1, running |-> TRUE, yielded |-> out]

\* decode_file, lines 470-484: one iteration of the loop, given the outcome r
\* of decode_packet(data); k is the value of i that enumerate gives
decode_file_body(r, timestamp, k, out) ==
    IF r.st = "ok"
    THEN [i |-> k + 1, running |-> TRUE,
          yielded |-> Append(out, r.v @@ [_number |-> k + 1,
                                          _timestamp |-> timestamp])]
    ELSE [i |-> k + 1, running |-> TRUE, yielded |-> out]

\* decode_file_full_body with one packet object reused for every record: the
\* items already yielded are stamped again
decode_file_full_body_shared(r, timestamp, k, out) ==
    IF r.st = "ok"
    THEN [i |-> k + 1, running |-> TRUE,
          yielded |-> [j \in 1..(Len(out) + 1) |->
                          [(IF j <= Len(out) THEN out[j] ELSE r.v) EXCEPT
                              !.number = IntV(k + 1),
                              !.timestamp = IntV(timestamp)]]]
    ELSE [i |-> k + 1, running |-> TRUE, yielded |-> out]

\* decode_file_full, lines 499-513: one iteration of the loop
decode_file_full_body(r, timestamp, k, out) ==
    IF r.st = "ok"
    THEN [i |-> k + 1, running |-> TRUE,
          yielded |-> Append(out, [r.v EXCEPT !.number = IntV(k + 1),
                                              !.timestamp = IntV(timestamp)])]
    ELSE [i |-> k + 1, running |-> TRUE, yielded |-> out]

Init ==
    /\ route_aware \in BOOLEAN
    /\ mode \in {"depth", "full"}
    /\ capture = <<>>
    /\ i = 0
    /\ yielded = <<>>
    /\ input = NoInput
    /\ depth = Pending
    /\ full = Pending
    /\ current_tracers = <<>>
    /\ slot = 0
    /\ invoked = <<>>

\* decode_file: the reader hands over a record and the loop body runs
decode_file ==
    /\ mode = "depth"
    /\ i < MaxRecords
    /\ \E rec \in CaptureRecords :
          LET n == decode_file_body(
                       decode_packet(rec.data, rec.codec, route_aware),
                       rec.timestamp, i, yielded)
          IN  /\ capture' = Append(capture, rec)
              /\ i' = n.i
              /\ yielded' = n.yielded
              /\ mode' = IF n.running THEN mode ELSE "stopped"
    /\ UNCHANGED <<route_aware, input, depth, full, current_tracers, slot,
                   invoked>>

\* decode_file_full: the reader hands over a record and the loop body runs
decode_file_full ==
    /\ mode = "full"
    /\ i < MaxRecords
    /\ \E rec \in CaptureRecords :
          LET n == decode_file_full_body(
                       decode_packet_full(rec.data, rec.codec, route_aware),
                       rec.timestamp, i, yielded)
          IN  /\ capture' = Append(capture, rec)
              /\ i' = n.i
              /\ yielded' = n.yielded
              /\ mode' = IF n.running THEN mode ELSE "stopped"
    /\ UNCHANGED <<route_aware, input, depth, full, current_tracers, slot,
                   invoked>>

Next == decode_file \/ decode_file_full

Spec == Init /\ [][Next]_vars

-----------------------------------------------------------------------------
(* The tracer framework.  A tracer is [factory, born, current_state]: the   *)
(* slot whose factory built it, the ordinal of the packet during whose      *)
(* handling it was built (0: before the first packet) and its state, the    *)
(* name of a handler or "None".  What a handler does is the tracer's own    *)
(* code: it may call self.next(fn) with any handler or with None.           *)

TracerStates == {"start", "s1"}

\* Tracer.next(fn)
Tracer_next(self, fn) == [self EXCEPT !.current_state = fn]

\* Tracer.__init__(initial_state): self.next(initial_state or self.start)
Tracer_init(self, initial_state) ==
    Tracer_next(self, IF initial_state # "None" THEN initial_state
                      ELSE "start")

\* traceClass(): the factory of slot k builds an instance with no argument
NewTracer(k, packet) ==
    Tracer_init([factory |-> k, born |-> packet, current_state |-> "None"],
                "None")

NoInvocation == [packet |-> 0, called |-> "None", left |-> "None", born |-> 0]

\* the records the reader hands over while tracing: one that decodes to a
\* packet and one that is skipped
TraceRecords ==
    {[data |-> GoodFrame, codec |-> GoodCodec, timestamp |-> 100],
     [data |-> <<>>, codec |-> DefaultCodec, timestamp |-> 100]}

\* trace_serve with a tracer left in the terminal state kept in its slot
trace_serve_no_restart(tracers, k, fn, packet) ==
    [tracers EXCEPT ![k] = Tracer_next(tracers[k], fn)]

\* trace, lines 549-554: the handler of slot k is called with the packet and
\* leaves the tracer in state fn; a tracer without a state is replaced
trace_serve(tracers, k, fn, packet) ==
    LET tracer == Tracer_next(tracers[k], fn)
    IN  IF tracer.current_state = "None"
        THEN [tracers EXCEPT ![k] = NewTracer(k, packet)]
        ELSE [tracers EXCEPT ![k] = tracer]

InitTrace ==
    /\ route_aware = FALSE
    /\ mode = "trace"
    /\ capture = <<>>
    /\ i = 0
    /\ yielded = <<>>
    /\ input = NoInput
    /\ depth = Pending
    /\ full = Pending
    /\ current_tracers = [k \in 1..NumTracers |-> NewTracer(k, 0)]
    /\ slot = 0
    /\ invoked = [k \in 1..NumTracers |-> NoInvocation]

\* trace, line 547: the loop asks decode_file for the next packet
trace_pull ==
    /\ mode = "trace"
    /\ slot = 0
    /\ i < MaxRecords
    /\ \E rec \in TraceRecords :
          LET n == decode_file_body(
                       decode_packet(rec.data, rec.codec, route_aware),
                       rec.timestamp, i, yielded)
          IN  /\ capture' = Append(capture, rec)
              /\ i' = n.i
              /\ yielded' = n.yielded
              /\ mode' = IF n.running THEN mode ELSE "stopped"
              /\ slot' = IF Len(n.yielded) > Len(yielded) /\ NumTracers > 0
                         THEN 1 ELSE 0
    /\ UNCHANGED <<route_aware, input, depth, full, current_tracers, invoked>>

\* trace, lines 548-554: the next slot is served for the packet in hand
trace_call ==
    /\ mode = "trace"
    /\ slot \in 1..NumTracers
    /\ \E fn \in TracerStates \cup {"None"} :
          /\ current_tracers' =
                 trace_serve(current_tracers, slot, fn, Len(yielded))
          /\ invoked' = [invoked EXCEPT ![slot] =
                 [packet |-> Len(yielded),
                  called |-> current_tracers[slot].current_state,
                  left   |-> fn,
                  born   |-> current_tracers[slot].born]]
    /\ slot' = IF slot < NumTracers THEN slot + 1 ELSE 0
    /\ UNCHANGED <<route_aware, input, depth, full, capture, mode, i, yielded>>

NextTrace == trace_pull \/ trace_call

SpecTrace == InitTrace /\ [][NextTrace]_vars

-----------------------------------------------------------------------------
(* Properties of the entry points *)

BothDone == depth.st # "pending" /\ full.st # "pending"

\* the deepest populated field of a DecodedPacket
Deepest(p) ==
    IF Truthy(p.apdu) THEN p.apdu
    ELSE IF Truthy(p.npdu) THEN p.npdu
    ELSE IF Truthy(p.lpdu) THEN p.lpdu
    ELSE p.pdu

\* C1: for every raw input decode_packet_full and decode_packet agree: both
\* return None, or both return a result and the deepest populated field of
\* the full record is the record decode_packet returns (or both fault); one
\* never faults where the other returns a result.
C1_EntryPointsAgree ==
    BothDone =>
        \/ depth.st = "none" /\ full.st = "none"
        \/ depth.st = "fault" /\ full.st = "fault"
        \/ depth.st = "ok" /\ full.st = "ok" /\ Deepest(full.v) = depth.v

\* C5 as claimed: a raw record of 0 to 13 octets faults in decode_ethernet;
\* it yields neither a result nor None.
C5_ShortRecordAlwaysFaults ==
    (BothDone /\ Len(input.data) < ETH_HEADER_LEN) =>
        /\ depth.st = "fault" /\ depth.calls = <<"decode_ethernet">>
        /\ full.st = "fault" /\ full.calls = <<"decode_ethernet">>

\* C5 as amended: a raw record of 1 to 13 octets faults with struct.error in
\* decode_ethernet at both entry points and no later decoder is entered; an
\* empty record returns None before decode_ethernet is entered.
C5_ShortRecord ==
    (BothDone /\ Len(input.data) < ETH_HEADER_LEN) =>
        IF input.data = <<>>
        THEN /\ depth.st = "none" /\ depth.calls = <<>>
             /\ full.st = "none" /\ full.calls = <<>>
        ELSE /\ depth.st = "fault" /\ depth.err = "struct.error"
             /\ depth.calls = <<"decode_ethernet">>
             /\ full.st = "fault" /\ full.err = "struct.error"
             /\ full.calls = <<"decode_ethernet">>

C5_Witness ==
    /\ BothDone
    /\ Len(input.data) = ETH_HEADER_LEN - 1
    /\ depth.st = "fault"
    /\ full.st = "fault"

\* the payload each peeling stage of a frame produces, and the header the
\* type or protocol found there selects next ("none": peeling ends)
UdpStages(s) ==
    LET u == decode_udp(s)
    IN  IF u.st # "ok" THEN <<>>
        ELSE <<[stage |-> "udp", data |-> u.data, next |-> "none"]>>

IpStages(s) ==
    LET p == decode_ip(s)
    IN  IF p.st # "ok" THEN <<>>
        ELSE IF p.protocol = "udp"
        THEN <<[stage |-> "ip", data |-> p.data, next |-> "udp"]>>
             \o UdpStages(p.data)
        ELSE <<[stage |-> "ip", data |-> p.data, next |-> "none"]>>

NextOfType(type) == IF type = ETHERTYPE_IP THEN "ip" ELSE "none"

PeelStages(data) ==
    LET e == decode_ethernet(data)
    IN  IF e.st # "ok" THEN <<>>
        ELSE IF e.type = ETHERTYPE_VLAN
        THEN LET v == decode_vlan(e.data)
             IN  <<[stage |-> "ethernet", data |-> e.data, next |-> "vlan"]>>
                 \o (IF v.st # "ok" THEN <<>>
                     ELSE <<[stage |-> "vlan", data |-> v.data,
                             next |-> NextOfType(v.type)]>>
                          \o (IF v.type = ETHERTYPE_IP
                              THEN IpStages(v.data) ELSE <<>>))
        ELSE <<[stage |-> "ethernet", data |-> e.data,
                next |-> NextOfType(e.type)]>>
             \o (IF e.type = ETHERTYPE_IP THEN IpStages(e.data) ELSE <<>>)

\* C6 as claimed: a zero-length payload produced at any peeling stage makes
\* both entry points return None and not fault, whatever header the ethertype
\* or protocol selects next.
C6_EmptyStageIsNone ==
    (BothDone /\ input.data # <<>>) =>
        \A k \in 1..Len(PeelStages(input.data)) :
            PeelStages(input.data)[k].data = <<>> =>
                depth.st = "none" /\ full.st = "none"

\* C6 as amended: a zero-length payload left by the stage at which peeling
\* ends (no further header is selected) makes both entry points return None;
\* a zero-length payload produced at a stage whose ethertype or protocol
\* selects a further header (VLAN, IPv4, UDP) makes both raise a bounds fault
\* in that header's parser.
C6_EmptyStage ==
    (BothDone /\ input.data # <<>>) =>
        \A k \in 1..Len(PeelStages(input.data)) :
            LET g == PeelStages(input.data)[k]
            IN  g.data = <<>> =>
                    IF g.next = "none"
                    THEN depth.st = "none" /\ full.st = "none"
                    ELSE /\ depth.st = "fault" /\ full.st = "fault"
                         /\ depth.err \in {"struct.error", "IndexError"}
                         /\ full.err = depth.err
                         /\ depth.calls[Len(depth.calls)] = "decode_" \o g.next
                         /\ full.calls = depth.calls

C6_Witness ==
    /\ BothDone
    /\ Len(PeelStages(input.data)) = 3
    /\ PeelStages(input.data)[3].stage = "udp"
    /\ PeelStages(input.data)[3].data = <<>>
    /\ Len(input.data) > ETH_HEADER_LEN + 20 + UDP_HEADER_LEN
    /\ depth.st = "none"
    /\ full.st = "none"

\* C7: for a virtual-link frame with the forwarded function whose body
\* carries an embedded address, decode_lpdu returns a record whose source is
\* that embedded address; with route_aware on, the transport source is the
\* route annotation of the new source; with route_aware off, the new source
\* has no route annotation.
C7_ForwardedSourceLifted ==
    (full.st = "ok" /\ full.v.lpdu.kind = "ForwardedNPDU"
                   /\ Truthy(full.v.lpdu.bvlciAddress)) =>
        full.v.lpdu.pduSource =
            [full.v.lpdu.bvlciAddress EXCEPT !.addrRoute =
                IF route_aware THEN full.v.pdu.pduSource ELSE NoneV]

\* C8: when the ethertype is neither VLAN nor IPv4 and the Ethernet payload
\* is not empty, both entry points hand the Ethernet payload on as the
\* transport pdu, with the MAC addresses as source and destination, and
\* raise no fault doing so.
C8_NonIpPassThrough ==
    LET e == decode_ethernet(input.data)
    IN  (BothDone /\ e.st = "ok" /\ e.data # <<>>
                  /\ e.type \notin {ETHERTYPE_VLAN, ETHERTYPE_IP}) =>
            /\ InSeq("decode_lpdu", full.calls)
            /\ full.st = "ok" =>
                  full.v.pdu = PDU(e.data,
                                   Address("mac", e.source_address, 0),
                                   Address("mac", e.destination_address, 0))
            /\ InSeq("decode_lpdu", depth.calls)

\* the record decode_packet hands to decode_npdu: what decode_lpdu returns
\* for the transport pdu of the input
HandedToNetwork == decode_lpdu(full.v.pdu, input.codec, route_aware).lpdu

\* C9: when the first octet of the payload handed to decode_npdu is not the
\* supported version, no NPDU is produced, decode_packet returns what
\* decode_lpdu returned (the link record, or the transport pdu when no
\* virtual-link frame was recognised) and decode_apdu is not entered.
C9_VersionMismatchFallsBack ==
    (BothDone /\ InSeq("decode_npdu", depth.calls) /\ full.st = "ok"
              /\ HandedToNetwork.pduData # <<>>
              /\ HandedToNetwork.pduData[1] # NPDU_VERSION) =>
        /\ depth.st = "ok"
        /\ depth.v = HandedToNetwork
        /\ ~InSeq("NPDU.decode", depth.calls)
        /\ ~InSeq("decode_apdu", depth.calls)
        /\ full.v.npdu = NoneV
        /\ full.v.apdu = NoneV

C9_Witness ==
    /\ BothDone
    /\ InSeq("decode_npdu", depth.calls)
    /\ full.st = "ok"
    /\ HandedToNetwork.kind = "OriginalUnicastNPDU"
    /\ HandedToNetwork.pduData # <<>>
    /\ HandedToNetwork.pduData[1] # NPDU_VERSION
    /\ depth.st = "ok"
    /\ depth.v.kind = "OriginalUnicastNPDU"

\* the octets of a frame that follow the Ethernet header and the VLAN tag,
\* when the type found there is IPv4; <<>> for any other frame
IpBufferOf(data) ==
    IF Len(data) < ETH_HEADER_LEN THEN <<>>
    ELSE IF UnpackH(SubSeq(data, 13, 14)) = ETHERTYPE_IP
    THEN SubSeq(data, ETH_HEADER_LEN + 1, Len(data))
    ELSE IF /\ UnpackH(SubSeq(data, 13, 14)) = ETHERTYPE_VLAN
            /\ Len(data) >= ETH_HEADER_LEN + 4
            /\ UnpackH(SubSeq(data, 17, 18)) = ETHERTYPE_IP
    THEN SubSeq(data, ETH_HEADER_LEN + 5, Len(data))
    ELSE <<>>

\* the octets that follow the IPv4 header of the buffer b
IpPayloadOf(b) == SubSeq(b, 4 * (b[1] % 16) + 1, Len(b))

\* C11: for a frame whose type is IPv4 and whose IP protocol is not UDP,
\* decode_udp is never entered; when the IP payload is not empty the transport
\* pdu is built from the whole IP payload with the bare IP addresses (no
\* port) as source and destination, at both entry points.
C11_NonUdpIpOnly ==
    LET b == IpBufferOf(input.data)
    IN  (BothDone /\ Len(b) >= 20 /\ b[10] # IPPROTO_UDP) =>
            /\ ~InSeq("decode_udp", depth.calls)
            /\ ~InSeq("decode_udp", full.calls)
            /\ IF IpPayloadOf(b) = <<>>
               THEN depth.st = "none" /\ full.st = "none"
               ELSE /\ InSeq("decode_lpdu", depth.calls)
                    /\ InSeq("decode_lpdu", full.calls)
                    /\ depth.st = full.st
                    /\ full.st = "ok" =>
                          /\ full.v.pdu =
                                 PDU(IpPayloadOf(b),
                                     IPString(SubSeq(b, 13, 16)),
                                     IPString(SubSeq(b, 17, 20)))
                          /\ depth.v = Deepest(full.v)

C11_Witness ==
    /\ BothDone
    /\ Len(IpBufferOf(input.data)) > 20
    /\ IpBufferOf(input.data)[10] = IPPROTO_TCP
    /\ full.st = "ok"
    /\ full.v.pdu.pduSource = IPString(IpSrc)
    /\ full.v.pdu.pduData = Npdu(NPDU_VERSION, 1)
    /\ depth.st = "ok"
    /\ depth.v.pduSource = IPString(IpSrc)

\* the payload the last peeling stage of a frame leaves: the data of the
\* transport pdu
TransportData(data) ==
    LET g == PeelStages(data)
    IN  IF g = <<>> THEN <<>> ELSE g[Len(g)].data

\* the frame is recognised as virtual-link: the marker matches and LPDU.decode
\* accepts the header
VirtualLink(x) ==
    /\ TransportData(x.data) # <<>>
    /\ TransportData(x.data)[1] = BVLL_MARKER
    /\ LPDU_decode(PDU(TransportData(x.data), NoneV, NoneV), x.codec).st = "ok"

\* the function code of a virtual-link frame
FunctionOf(x) == TransportData(x.data)[2]

\* C13: for a frame recognised as virtual-link whose function code is not
\* one of the four wrapping kinds (forwarded, distribute-broadcast-to-network,
\* original-unicast, original-broadcast), the pipeline stops at the link
\* record: decode_npdu is not entered and no network or application record is
\* produced, whatever the remaining payload begins with.
C13_NonWrappingStops ==
    (BothDone /\ VirtualLink(input)
              /\ InSeq("decode_lpdu", full.calls)
              /\ FunctionOf(input) \notin {FN_FORWARDED, FN_DISTRIBUTE,
                                            FN_ORIG_UNICAST, FN_ORIG_BCAST}) =>
        /\ ~InSeq("decode_npdu", full.calls)
        /\ ~InSeq("decode_npdu", depth.calls)
        /\ full.st = "ok"
        /\ full.v.npdu = NoneV
        /\ full.v.apdu = NoneV

\* the kinds of record decode_npdu returns: the generic header or the
\* specialised network message
NetworkKinds == {"NPDU", "NetworkMessage"}

\* the full record carries a network record flagged as a control message
ControlMessage(p) ==
    /\ Truthy(p.npdu)
    /\ Truthy(p.npdu.npduNetMessage)

\* C14: in every result of the pipeline, an application record never stands
\* beside a network record that carries a control-message type: when the
\* message type of the network record is not None, decode_packet_full leaves
\* apdu None, APDU.decode is not entered, and a run of decode_packet that
\* reached the network layer returns that network record (generic or
\* specialised), never an application record.
C14_NoApplicationWithControlMessage ==
    (full.st = "ok" /\ ControlMessage(full.v)) =>
        /\ full.v.apdu = NoneV
        /\ full.v.npdu.kind \in NetworkKinds
        /\ ~InSeq("APDU.decode", full.calls)
        /\ (depth.st # "pending" /\ InSeq("decode_npdu", depth.calls)) =>
              /\ depth.st = "ok"
              /\ depth.v = full.v.npdu
              /\ ~InSeq("APDU.decode", depth.calls)

C14_Witness ==
    /\ BothDone
    /\ full.st = "ok"
    /\ ControlMessage(full.v)
    /\ full.v.npdu.kind = "NetworkMessage"
    /\ full.v.npdu.pduData # <<>>
    /\ full.v.lpdu.kind = "OriginalBroadcastNPDU"
    /\ full.v.apdu = NoneV
    /\ depth.st = "ok"
    /\ depth.v.kind = "NetworkMessage"

\* the octets that follow the IPv4 header of a frame whose protocol is UDP;
\* <<>> for any other frame
UdpBufferOf(data) ==
    LET b == IpBufferOf(data)
    IN  IF Len(b) >= 20 /\ b[10] = IPPROTO_UDP THEN IpPayloadOf(b) ELSE <<>>

\* the length field of the UDP header at the start of u
DeclaredLength(u) == UnpackH(SubSeq(u, 5, 6))

\* the number of payload octets the code keeps: the declared length bounded
\* by the octets present, less the header, and never negative
KeptLength(u) ==
    IF Min(DeclaredLength(u), Len(u)) < UDP_HEADER_LEN THEN 0
    ELSE Min(DeclaredLength(u), Len(u)) - UDP_HEADER_LEN

\* C17 as claimed: for an IPv4/UDP frame the length of the transport payload
\* is the declared length of the UDP header minus 8, whatever the declared
\* length, also when it is larger or smaller than the octets that follow the
\* UDP header.
C17_DeclaredLengthRules ==
    LET u == UdpBufferOf(input.data)
    IN  (BothDone /\ Len(u) >= UDP_HEADER_LEN) =>
            /\ Len(decode_udp(u).data) = DeclaredLength(u) - UDP_HEADER_LEN
            /\ full.st = "ok" =>
                  Len(full.v.pdu.pduData) = DeclaredLength(u) - UDP_HEADER_LEN

\* C17 as amended: the transport payload is the octets that follow the UDP
\* header, cut at the declared length: its length is the declared length
\* minus 8 when that many octets are present, the number of octets present
\* when the declared length is larger, and 0 when the declared length is
\* below 8 (both entry points then return None).
C17_DeclaredLengthClamped ==
    LET u == UdpBufferOf(input.data)
    IN  (BothDone /\ Len(u) >= UDP_HEADER_LEN) =>
            /\ decode_udp(u).data =
                   SubSeq(u, UDP_HEADER_LEN + 1, UDP_HEADER_LEN + KeptLength(u))
            /\ InSeq("decode_udp", full.calls)
            /\ InSeq("decode_udp", depth.calls)
            /\ full.st = "ok" =>
                  full.v.pdu.pduData =
                      SubSeq(u, UDP_HEADER_LEN + 1,
                             UDP_HEADER_LEN + KeptLength(u))
            /\ KeptLength(u) = 0 <=> full.st = "none"
            /\ KeptLength(u) = 0 <=> depth.st = "none"

C17_Witness ==
    /\ BothDone
    /\ Len(UdpBufferOf(input.data)) > UDP_HEADER_LEN
    /\ DeclaredLength(UdpBufferOf(input.data)) > Len(UdpBufferOf(input.data))
    /\ full.st = "ok"
    /\ Len(full.v.pdu.pduData) = Len(UdpBufferOf(input.data)) - UDP_HEADER_LEN
    /\ depth.st = "ok"

-----------------------------------------------------------------------------
(* Properties of the packet sources *)

\* what the entry point of the running source returns for a record
Decoded(rec) ==
    IF mode = "full"
    THEN decode_packet_full(rec.data, rec.codec, route_aware)
    ELSE decode_packet(rec.data, rec.codec, route_aware)

NumberOf(item) ==
    IF item.kind = "DecodedPacket" THEN item.number.val ELSE item._number
TimestampOf(item) ==
    IF item.kind = "DecodedPacket" THEN item.timestamp.val ELSE item._timestamp

\* the packet as the entry point returned it, before the source stamped it
Unstamped(item) ==
    IF item.kind = "DecodedPacket"
    THEN [item EXCEPT !.number = NoneV, !.timestamp = NoneV]
    ELSE [f \in DOMAIN item \ {"_number", "_timestamp"} |-> item[f]]

Numbers == [j \in 1..Len(yielded) |-> NumberOf(yielded[j])]

\* the positions, in order, of the records read so far that decode to a result
DecodablePositions ==
    SelectSeq([k \in 1..Len(capture) |-> k],
              LAMBDA k : Decoded(capture[k]).st = "ok")

\* the virtual-link marker was found and LPDU.decode rejected the header
MalformedLink(rec) ==
    /\ InSeq("LPDU.decode", Decoded(rec).calls)
    /\ rec.codec.lpdu = "fault"

WellFormedUnicast(rec) ==
    /\ rec.data = GoodFrame
    /\ rec.codec = GoodCodec

ThreeRecordCapture ==
    /\ i = 3
    /\ Len(capture) = 3
    /\ WellFormedUnicast(capture[1])
    /\ MalformedLink(capture[2])
    /\ WellFormedUnicast(capture[3])

\* the item is the bare transport pdu: no link, network or application layer
BareTransport(item) ==
    IF item.kind = "DecodedPacket"
    THEN item.lpdu = NoneV /\ item.npdu = NoneV /\ item.apdu = NoneV
    ELSE item.kind = "PDU"

\* C2 as claimed: of three records (well-formed unicast application packet,
\* frame whose virtual-link header the codec rejects, well-formed packet) the
\* source yields exactly two, numbered 1 and 3; a record whose virtual-link
\* frame is malformed is never yielded.
C2_MalformedLinkSkipped ==
    /\ ThreeRecordCapture => Numbers = <<1, 3>>
    /\ \A k \in 1..Len(capture) :
          MalformedLink(capture[k]) =>
              \A j \in 1..Len(yielded) : NumberOf(yielded[j]) # k

\* C2 as amended: of these three records the source yields three items,
\* numbered 1, 2 and 3; a record whose virtual-link header the codec rejects
\* is not skipped: it is yielded under its own number as the bare transport
\* pdu.
C2_MalformedLinkYielded ==
    /\ ThreeRecordCapture => Numbers = <<1, 2, 3>>
    /\ \A k \in 1..Len(capture) :
          MalformedLink(capture[k]) =>
              \E j \in 1..Len(yielded) :
                  /\ NumberOf(yielded[j]) = k
                  /\ BareTransport(yielded[j])

C2_Witness ==
    /\ ThreeRecordCapture
    /\ Numbers = <<1, 2, 3>>
    /\ BareTransport(yielded[2])
    /\ ~BareTransport(yielded[1])

\* C3: a record whose decode returns None or raises is skipped and the
\* iteration goes on: the source is never stopped by a fault, every record
\* handed over has been consumed, and the items yielded are exactly the
\* records that decode to a result, each once and in order.
C3_RecordsIsolated ==
    /\ mode \in {"depth", "full"}
    /\ i = Len(capture)
    /\ Numbers = DecodablePositions

C3_Witness ==
    /\ i = 3
    /\ Decoded(capture[1]).st = "fault"
    /\ Decoded(capture[2]).st = "none"
    /\ Decoded(capture[3]).st = "ok"
    /\ Numbers = <<3>>

\* C4: items are yielded in strictly increasing number order; the number of
\* an item is the 1-based position of its record in the capture (skipped
\* records consume a number) and its timestamp is that record's timestamp.
C4_NumberedByPosition ==
    \A j \in 1..Len(yielded) :
        /\ NumberOf(yielded[j]) \in 1..i
        /\ TimestampOf(yielded[j]) = capture[NumberOf(yielded[j])].timestamp
        /\ Unstamped(yielded[j]) = Decoded(capture[NumberOf(yielded[j])]).v
        /\ \A h \in 1..(j - 1) : NumberOf(yielded[h]) < NumberOf(yielded[j])

C4_Witness ==
    /\ Numbers = <<1, 3>>
    /\ capture[1].timestamp = 200
    /\ capture[3].timestamp = 100
    /\ TimestampOf(yielded[1]) = 200
    /\ TimestampOf(yielded[2]) = 100

\* the record decode_lpdu returns for the transport pdu of a record
LinkRecordOf(rec) ==
    LET f == decode_packet_full(rec.data, rec.codec, route_aware)
    IN  decode_lpdu(f.v.pdu, rec.codec, route_aware).lpdu

\* the item is the link record of rec and carries no deeper layer
IsLinkRecordOf(item, rec) ==
    IF item.kind = "DecodedPacket"
    THEN /\ item.lpdu = LinkRecordOf(rec)
         /\ item.npdu = NoneV
         /\ item.apdu = NoneV
    ELSE Unstamped(item) = LinkRecordOf(rec)

\* the version octet matched and NPDU.decode rejected the network header
NetworkHeaderRejected(rec) ==
    /\ InSeq("NPDU.decode", Decoded(rec).calls)
    /\ rec.codec.npdu = "fault"

\* C12 as claimed: when the version octet matches and NPDU.decode faults, the
\* fault leaves decode_npdu and the entry point, and the source skips the
\* record; there is no fall back to the link record.
C12_NetworkFaultSkips ==
    \A k \in 1..Len(capture) :
        NetworkHeaderRejected(capture[k]) =>
            /\ Decoded(capture[k]).st = "fault"
            /\ \A j \in 1..Len(yielded) : NumberOf(yielded[j]) # k

\* C12 as amended: when the version octet matches and NPDU.decode faults,
\* decode_npdu catches the fault and returns None; the entry point falls back
\* to the link record (no network and no application layer) and the source
\* yields it under the record's own number.
C12_NetworkFaultFallsBack ==
    \A k \in 1..Len(capture) :
        NetworkHeaderRejected(capture[k]) =>
            /\ Decoded(capture[k]).st = "ok"
            /\ ~InSeq("decode_apdu", Decoded(capture[k]).calls)
            /\ \E j \in 1..Len(yielded) :
                  /\ NumberOf(yielded[j]) = k
                  /\ IsLinkRecordOf(yielded[j], capture[k])
                  /\ \A h \in 1..Len(yielded) :
                        NumberOf(yielded[h]) = k => h = j

C12_Witness ==
    /\ Len(capture) = 2
    /\ WellFormedUnicast(capture[1])
    /\ NetworkHeaderRejected(capture[2])
    /\ Numbers = <<1, 2>>
    /\ IsLinkRecordOf(yielded[2], capture[2])
    /\ LinkRecordOf(capture[2]).kind = "OriginalUnicastNPDU"

\* the record decode_npdu returns for the link record of a record
NetworkRecordOf(rec) == decode_npdu(LinkRecordOf(rec), rec.codec).v

\* the item is the network record of rec and carries no application layer
IsNetworkRecordOf(item, rec) ==
    IF item.kind = "DecodedPacket"
    THEN /\ item.npdu = NetworkRecordOf(rec)
         /\ item.apdu = NoneV
    ELSE Unstamped(item) = NetworkRecordOf(rec)

\* the network layer decoded with no message type and APDU.decode rejected
\* the generic application header
ApplicationHeaderRejected(rec) ==
    /\ InSeq("APDU.decode", Decoded(rec).calls)
    /\ rec.codec.apdu = "fault"

\* C15: when the network layer decoded with no control-message type and
\* APDU.decode faults on the generic header, decode_apdu returns None and
\* raises nothing: the entry point answers with the network record
\* (decode_packet returns it; decode_packet_full has npdu set and apdu None),
\* APCISequence.decode is not entered, and the source yields the record under
\* its own number.
C15_ApplicationFaultFallsBack ==
    \A k \in 1..Len(capture) :
        ApplicationHeaderRejected(capture[k]) =>
            /\ Decoded(capture[k]).st = "ok"
            /\ NetworkRecordOf(capture[k]).kind = "NPDU"
            /\ NetworkRecordOf(capture[k]).npduNetMessage = NoneV
            /\ ~InSeq("APCISequence.decode", Decoded(capture[k]).calls)
            /\ \E j \in 1..Len(yielded) :
                  /\ NumberOf(yielded[j]) = k
                  /\ IsNetworkRecordOf(yielded[j], capture[k])

C15_Witness ==
    /\ Len(capture) = 2
    /\ ApplicationHeaderRejected(capture[1])
    /\ WellFormedUnicast(capture[2])
    /\ Numbers = <<1, 2>>
    /\ IsNetworkRecordOf(yielded[1], capture[1])
    /\ ~IsNetworkRecordOf(yielded[2], capture[2])

\* the generic application header of rec with the addresses lifted, before
\* the service sequence is decoded
GenericHeaderOf(rec) ==
    decode_apdu_lift(NetworkRecordOf(rec),
                     APDU_decode(NetworkRecordOf(rec), rec.codec).v,
                     route_aware)

\* the application record of an item
ApplicationOf(item) ==
    IF item.kind = "DecodedPacket" THEN item.apdu ELSE Unstamped(item)

\* the refinement step was entered for rec
Refined(rec) == InSeq("APCISequence.decode", Decoded(rec).calls)

\* C16: APCISequence.decode is entered only for the three header kinds that
\* carry a service sequence.  When it raises AttributeError the fault is
\* swallowed: the generic header with the lifted addresses, without a
\* sequence, is the application record and the source yields it.  When it
\* raises any other exception the fault leaves the entry point and the source
\* skips the record.
C16_RefinementFaults ==
    \A k \in 1..Len(capture) :
        /\ Refined(capture[k]) => capture[k].codec.apdu \in RefinedKinds
        /\ (InSeq("APDU.decode", Decoded(capture[k]).calls)
              /\ capture[k].codec.apdu \notin RefinedKinds \cup {"fault"}) =>
                 ~Refined(capture[k])
        /\ (Refined(capture[k]) /\ capture[k].codec.seq = "AttributeError") =>
              /\ Decoded(capture[k]).st = "ok"
              /\ \E j \in 1..Len(yielded) :
                    /\ NumberOf(yielded[j]) = k
                    /\ ApplicationOf(yielded[j]) = GenericHeaderOf(capture[k])
                    /\ ~ApplicationOf(yielded[j]).sequence
        /\ (Refined(capture[k]) /\ capture[k].codec.seq = "fault") =>
              /\ Decoded(capture[k]).st = "fault"
              /\ Decoded(capture[k]).err = "DecodingError"
              /\ \A j \in 1..Len(yielded) : NumberOf(yielded[j]) # k

C16_Witness ==
    /\ Len(capture) = 3
    /\ Refined(capture[1]) /\ capture[1].codec.seq = "AttributeError"
    /\ Refined(capture[2]) /\ capture[2].codec.seq = "fault"
    /\ capture[3].codec = DefaultCodec /\ ~Refined(capture[3])
    /\ Numbers = <<1, 3>>
    /\ ApplicationOf(yielded[1]).kind = "ConfirmedRequestPDU"
    /\ ~ApplicationOf(yielded[1]).sequence
    /\ ApplicationOf(yielded[2]).kind = "SimpleAckPDU"

\* C18 as claimed: a DecodedPacket is never mutated after construction: the
\* record the source yields is the record decode_packet_full returned, and
\* that record is as DecodedPacket(pdu=pdu) built it; no field (lpdu, npdu,
\* apdu, number, timestamp) is assigned afterwards.
C18_NeverMutated ==
    mode = "full" =>
        \A j \in 1..Len(yielded) :
            LET ret == Decoded(capture[NumberOf(yielded[j])]).v
            IN  /\ yielded[j] = ret
                /\ ret = DecodedPacket(ret.pdu)

\* C18 as amended: a DecodedPacket is built once per record and then
\* assigned to: decode_packet_full sets lpdu, npdu and apdu on the record it
\* has built and returns it with number and timestamp still None; the source
\* sets number and timestamp on the returned record and then yields it; an
\* item that has been yielded is never assigned again.
C18_AssignedBeforeYield ==
    [][/\ Len(yielded') >= Len(yielded)
       /\ \A j \in 1..Len(yielded) : yielded'[j] = yielded[j]
       /\ (mode = "full" /\ Len(yielded') > Len(yielded)) =>
             LET rec  == capture'[Len(capture')]
                 ret  == decode_packet_full(rec.data, rec.codec, route_aware).v
                 item == yielded'[Len(yielded')]
             IN  /\ Len(yielded') = Len(yielded) + 1
                 /\ ret.number = NoneV
                 /\ ret.timestamp = NoneV
                 /\ ret = [DecodedPacket(ret.pdu) EXCEPT
                              !.lpdu = item.lpdu, !.npdu = item.npdu,
                              !.apdu = item.apdu]
                 /\ item = [ret EXCEPT !.number = IntV(i + 1),
                                       !.timestamp = IntV(rec.timestamp)]
      ]_vars

C18_Witness ==
    /\ mode = "full"
    /\ Len(yielded) = 2
    /\ yielded[1].number = IntV(1)
    /\ yielded[1].lpdu # NoneV
    /\ yielded[1].npdu # NoneV
    /\ yielded[1].apdu # NoneV
    /\ yielded[2].number = IntV(3)
    /\ yielded[2].timestamp # yielded[1].timestamp

-----------------------------------------------------------------------------
(* Properties of the tracer framework *)

\* C10: a tracer whose handler leaves it in the terminal state while handling
\* packet N is replaced in its slot, at once, by a fresh instance of the same
\* factory in its initial state; the other slots are left as they are; the
\* next call in that slot is for packet N+1, goes to the fresh instance and
\* finds it in its initial state (so the fresh instance was not given
\* packet N); pulling the next packet changes no tracer.
C10_TerminalTracerRestarts ==
    [][\A k \in 1..NumTracers :
          /\ (slot = k /\ invoked'[k].left = "None") =>
                /\ current_tracers'[k] =
                       [factory |-> k, born |-> Len(yielded),
                        current_state |-> "start"]
                /\ \A j \in 1..NumTracers \ {k} :
                       current_tracers'[j] = current_tracers[j]
          /\ (slot = k /\ invoked[k].packet > 0 /\ invoked[k].left = "None") =>
                /\ invoked'[k].packet = invoked[k].packet + 1
                /\ invoked'[k].born = invoked[k].packet
                /\ invoked'[k].called = "start"
          /\ slot = 0 => current_tracers' = current_tracers
      ]_vars

C10_Witness ==
    /\ NumTracers >= 2
    /\ invoked[1].packet >= 2
    /\ invoked[1].born = invoked[1].packet - 1
    /\ invoked[1].called = "start"
    /\ invoked[2].packet = invoked[1].packet
    /\ invoked[2].born = 0
    /\ invoked[2].called = "s1"

\* C19: while tracing, every tracer in the list has a handler as its state
\* (a terminal tracer never stays in its slot); the slots are served in the
\* order of the factories: once slot k is served for the last packet yielded,
\* so are all slots before it, and the slots from the one in turn onward were
\* last served for the packet before; a packet is pulled only when every slot
\* is served.  Each call serves the slot in turn, for the last packet
\* yielded, once (its packet number goes up by one), and calls the handler
\* that is the state of the tracer in that slot, which is not None.
C19_EverySlotServedOnceInOrder ==
    /\ [](mode = "trace" =>
            /\ \A k \in 1..NumTracers :
                  /\ current_tracers[k].current_state # "None"
                  /\ current_tracers[k].factory = k
                  /\ invoked[k].packet =
                         IF slot = 0 \/ k < slot THEN Len(yielded)
                         ELSE Len(yielded) - 1
                  /\ invoked[k].packet > 0 => invoked[k].called # "None"
            /\ slot # 0 => Len(yielded) > 0)
    /\ [][/\ Len(yielded') > Len(yielded) =>
                /\ slot = 0
                /\ Len(yielded') = Len(yielded) + 1
                /\ slot' = 1
          /\ \A k \in 1..NumTracers :
                invoked'[k] # invoked[k] =>
                    /\ k = slot
                    /\ slot' = IF k < NumTracers THEN k + 1 ELSE 0
                    /\ yielded' = yielded
                    /\ invoked'[k].packet = invoked[k].packet + 1
                    /\ invoked'[k].packet = Len(yielded)
                    /\ invoked'[k].called = current_tracers[k].current_state
                    /\ invoked'[k].called # "None"
                    /\ \A j \in 1..NumTracers \ {k} : invoked'[j] = invoked[j]
         ]_vars

C19_Witness ==
    /\ NumTracers >= 2
    /\ slot = 2
    /\ Len(yielded) = 2
    /\ invoked[1].packet = 2
    /\ invoked[1].called = "s1"
    /\ invoked[2].packet = 1
    /\ invoked[2].left = "None"
    /\ current_tracers[2].current_state = "start"
    /\ current_tracers[2].born = 1

=============================================================================
